---- MODULE Spec2Model ----
(***************************************************************************)
(* dailydisplay: the calendar aggregation of fetch_calendar_events, the   *)
(* refresh cycle of refresh_all_data, the startup, the background loop and *)
(* the display_image route, in the two revisions of the server             *)
(* (src/app.py, called "app", and src/server/app.py, called "server").     *)
(*                                                                         *)
(* Time is counted in seconds.  A localized datetime (tzinfo = the user's  *)
(* ZoneInfo object) is its wall-clock reading, in seconds since the        *)
(* midnight of day 0: Python compares and subtracts two aware datetimes    *)
(* that share one tzinfo object by their wall-clock fields.  The user's    *)
(* zone has one UTC offset over the days of a run.                         *)
(***************************************************************************)
EXTENDS Integers, Sequences, FiniteSets, TLC

\* ------------------------------------------------------------------ bounds
MaxSources == 2      \* CalDAV urls of the first user
MaxCalendars == 2    \* calendars a source lists
MaxEvents == 2       \* instances the searches of one call return in total
MaxCycles == 3       \* calls of refresh_all_data in one run of the process
MaxWakes == 3        \* wake-ups of the embedded client
MaxListed == 3       \* calendars a source lists in a whole call

\* --------------------------------------------------------------- constants
SecondsPerDay == 86400
SecondsPerHour == 3600
SecondsPerMinute == 60

Revisions == {"app", "server"}

\* ------------------------------------------------------------------ strings
Titles == {"Holiday", "Standup", "standup"}

\* the code points of the strings the sorts compare (str.__lt__)
CodePoints ==
    [t \in Titles |->
        CASE t = "Holiday" -> <<72, 111, 108, 105, 100, 97, 121>>
          [] t = "Standup" -> <<83, 116, 97, 110, 100, 117, 112>>
          [] t = "standup" -> <<115, 116, 97, 110, 100, 117, 112>>]

RECURSIVE SeqLess(_, _)
SeqLess(a, b) ==
    IF b = <<>> THEN FALSE
    ELSE IF a = <<>> THEN TRUE
    ELSE IF Head(a) # Head(b) THEN Head(a) < Head(b)
    ELSE SeqLess(Tail(a), Tail(b))

\* a < b on two titles, as Python orders str
StrLess(a, b) == SeqLess(CodePoints[a], CodePoints[b])

\* str.lower() on the strings of the runs
NameNone == "<None>"
CalendarNames == {"Work", "work", "Home", NameNone}
Lower(s) ==
    CASE s = "Work" -> "work"
      [] s = "Home" -> "home"
      [] s = "Holiday" -> "holiday"
      [] s = "Standup" -> "standup"
      [] OTHER -> s

TwoDigits ==
    <<"00", "01", "02", "03", "04", "05", "06", "07", "08", "09",
      "10", "11", "12", "13", "14", "15", "16", "17", "18", "19",
      "20", "21", "22", "23", "24", "25", "26", "27", "28", "29",
      "30", "31", "32", "33", "34", "35", "36", "37", "38", "39",
      "40", "41", "42", "43", "44", "45", "46", "47", "48", "49",
      "50", "51", "52", "53", "54", "55", "56", "57", "58", "59">>

\* event_start_local.strftime("%H:%M")
StrfTime(wall) ==
    LET sod == wall % SecondsPerDay
    IN  TwoDigits[(sod \div SecondsPerHour) + 1] \o ":" \o
        TwoDigits[((sod % SecondsPerHour) \div SecondsPerMinute) + 1]

\* ---------------------------------------------- iCalendar property values
\* the .dt of a DTSTART or RECURRENCE-ID property: a date, a datetime
\* (naive or aware), a value of another type, or no property at all
NoProp == [type |-> "none", day |-> 0, secs |-> 0, aware |-> FALSE, off |-> 0]
OtherV == [type |-> "other", day |-> 0, secs |-> 0, aware |-> FALSE, off |-> 0]
DateV(d) == [type |-> "date", day |-> d, secs |-> 0, aware |-> FALSE, off |-> 0]
NaiveV(d, s) == [type |-> "datetime", day |-> d, secs |-> s, aware |-> FALSE, off |-> 0]
AwareV(d, s, o) == [type |-> "datetime", day |-> d, secs |-> s, aware |-> TRUE, off |-> o]

Hms(h, m, s) == h * SecondsPerHour + m * SecondsPerMinute + s

\* --------------------------------------------------------- configuration
HostNames == <<"a.example", "b.example", "c.example", "d.example">>
Users == <<"u1", "u2">>

\* the environment of a user: CALDAV_URLS_, TIMEZONE_ (its UTC offset in
\* seconds) and CALDAV_FILTER_NAMES_ (the empty set when the variable is unset)
UserEnv(u) ==
    IF u = "u1"
    THEN [caldav_urls |-> SubSeq(HostNames, 1, MaxSources),
          utcoffset |-> -5 * SecondsPerHour, filter_names |-> {}]
    ELSE [caldav_urls |-> SubSeq(HostNames, 1, 1),
          utcoffset |-> SecondsPerHour, filter_names |-> {"Work"}]

\* the filter set of the configuration: the names as written in app, the
\* names in lower case in server
LoadFilters(rev, names) ==
    IF rev = "server" THEN {Lower(n) : n \in names} ELSE names

\* USER_CONFIG[u]
UserConfig(rev, u) ==
    [caldav_urls |-> UserEnv(u).caldav_urls,
     utcoffset |-> UserEnv(u).utcoffset,
     caldav_filters |-> LoadFilters(rev, UserEnv(u).filter_names)]

\* ------------------------------------------------------ event normalizer
\* a variant: RECURRENCE-ID is not looked at
EffectiveStartOfSeries(rev, dtstart, rid) == dtstart

\* the instance start: DTSTART, overridden by RECURRENCE-ID
EffectiveStart(rev, dtstart, rid) ==
    IF rid.type = "none" THEN dtstart
    ELSE IF rid.type = "datetime" THEN rid
    ELSE IF rid.type = "date"
    THEN IF dtstart.type = "date" THEN rid
         ELSE IF rev = "app" THEN dtstart
         ELSE IF dtstart.type = "datetime"
              THEN [dtstart EXCEPT !.day = rid.day]
              ELSE NaiveV(rid.day, 0)
    ELSE dtstart

\* the wall-clock reading of a datetime moved to the user's zone
AsTimezone(v, utcoffset) == v.day * SecondsPerDay + v.secs - v.off + utcoffset

\* tzinfo attached to a naive datetime: the reading is kept
ReplaceTzinfo(v) == v.day * SecondsPerDay + v.secs

Skip == [status |-> "skip", time |-> "", title |-> "", sort_key |-> 0, is_all_day |-> FALSE]
Raised == [Skip EXCEPT !.status = "raise"]

\* is_all_day, event_start_local and time_str of an instance start.  In
\* server the zone object is a ZoneInfo, which has no localize method: the
\* call raises AttributeError
Localize(rev, start, utcoffset) ==
    IF start.type = "date"
    THEN IF rev = "server" THEN Raised
         ELSE [status |-> "ok", time |-> "All Day", title |-> "",
               sort_key |-> ReplaceTzinfo(start), is_all_day |-> TRUE]
    ELSE IF start.type = "datetime"
    THEN IF start.aware
         THEN [status |-> "ok", time |-> StrfTime(AsTimezone(start, utcoffset)), title |-> "",
               sort_key |-> AsTimezone(start, utcoffset), is_all_day |-> FALSE]
         ELSE IF rev = "server" THEN Raised
         ELSE [status |-> "ok", time |-> StrfTime(ReplaceTzinfo(start)), title |-> "",
               sort_key |-> ReplaceTzinfo(start), is_all_day |-> FALSE]
    ELSE Skip

\* one raw instance to (details, is_all_day), a skip (continue) or an
\* exception caught by the handler of the instance
NormalizeEvent(rev, event, utcoffset) ==
    IF event.data = "none" THEN Skip
    ELSE IF event.data = "garbage" THEN (IF rev = "app" THEN Skip ELSE Raised)
    ELSE IF event.data = "novevent" THEN Skip
    ELSE IF event.summary = "" \/ event.dtstart.type = "none" THEN Skip
    ELSE IF event.dtstart.type = "list" \/ event.rid.type = "list" THEN Raised
    ELSE [Localize(rev, EffectiveStart(rev, event.dtstart, event.rid), utcoffset)
            EXCEPT !.title = event.summary]

\* ------------------------------------------------------------- aggregator
\* the locals of fetch_calendar_events: the four buckets, the error list
\* and the four seen-sets; contacted is history, the hosts the call has
\* connected to
EmptyLocals ==
    [all_today |-> <<>>, timed_today |-> <<>>,
     all_tomorrow |-> <<>>, timed_tomorrow |-> <<>>, errors |-> <<>>,
     contacted |-> <<>>,
     added_all_today_titles |-> {}, added_timed_today_keys |-> {},
     added_all_tomorrow_titles |-> {}, added_timed_tomorrow_keys |-> {}]

\* DAVClient(url), principal() and calendars(): the source is contacted
Connect(locals, host) == [locals EXCEPT !.contacted = Append(@, host)]

Details(n) == [time |-> n.time, title |-> n.title, sort_key |-> n.sort_key]

\* check-then-add of one all-day entry
AddAllDay(bucket, added, n) ==
    IF n.title \notin added
    THEN [bucket |-> Append(bucket, Details(n)), added |-> added \cup {n.title}]
    ELSE [bucket |-> bucket, added |-> added]

\* a variant: a later instance takes the place of the entry of its key
AddTimedLastWins(bucket, added, n) ==
    IF <<n.time, n.title>> \notin added
    THEN [bucket |-> Append(bucket, Details(n)), added |-> added \cup {<<n.time, n.title>>}]
    ELSE [bucket |-> [k \in DOMAIN bucket |->
                         IF bucket[k].time = n.time /\ bucket[k].title = n.title
                         THEN Details(n) ELSE bucket[k]],
          added |-> added]

\* check-then-add of one timed entry
AddTimed(bucket, added, n) ==
    IF <<n.time, n.title>> \notin added
    THEN [bucket |-> Append(bucket, Details(n)), added |-> added \cup {<<n.time, n.title>>}]
    ELSE [bucket |-> bucket, added |-> added]

\* today_start <= event_start_local < today_end
InToday(sort_key, today_start) ==
    today_start <= sort_key /\ sort_key < today_start + SecondsPerDay

\* a variant: the end of the window is taken in
InTomorrowClosed(sort_key, today_start) ==
    LET tomorrow_start == today_start + SecondsPerDay
    IN  tomorrow_start <= sort_key /\ sort_key <= tomorrow_start + SecondsPerDay

\* tomorrow_start <= event_start_local < tomorrow_end
InTomorrow(sort_key, today_start) ==
    LET tomorrow_start == today_start + SecondsPerDay
    IN  tomorrow_start <= sort_key /\ sort_key < tomorrow_start + SecondsPerDay

\* the routing of one normalized instance into the buckets
AddEvent(f, n, today_start) ==
    IF InToday(n.sort_key, today_start)
    THEN IF n.is_all_day
         THEN LET r == AddAllDay(f.all_today, f.added_all_today_titles, n)
              IN  [f EXCEPT !.all_today = r.bucket, !.added_all_today_titles = r.added]
         ELSE LET r == AddTimed(f.timed_today, f.added_timed_today_keys, n)
              IN  [f EXCEPT !.timed_today = r.bucket, !.added_timed_today_keys = r.added]
    ELSE IF InTomorrow(n.sort_key, today_start)
    THEN IF n.is_all_day
         THEN LET r == AddAllDay(f.all_tomorrow, f.added_all_tomorrow_titles, n)
              IN  [f EXCEPT !.all_tomorrow = r.bucket, !.added_all_tomorrow_titles = r.added]
         ELSE LET r == AddTimed(f.timed_tomorrow, f.added_timed_tomorrow_keys, n)
              IN  [f EXCEPT !.timed_tomorrow = r.bucket, !.added_timed_tomorrow_keys = r.added]
    ELSE f

FailureKinds == {"AuthorizationError", "Timeout", "ConnectionError", "Exception"}

\* err_msg of the except clause that catches the failure
ErrMsg(kind, host) ==
    CASE kind = "AuthorizationError" -> "Auth Fail: " \o host
      [] kind = "Timeout" -> "Timeout: " \o host
      [] kind = "ConnectionError" -> "Connect Fail: " \o host
      [] OTHER -> "Load Fail: " \o host

\* a variant: the Timeout clause records nothing
SourceErrorTimeoutSilent(f, kind, host, today_start) ==
    IF kind = "Timeout" THEN f
    ELSE [f EXCEPT !.errors = Append(@, [time |-> "ERR", title |-> ErrMsg(kind, host),
                                         sort_key |-> today_start])]

\* the except clauses of one source
SourceError(f, kind, host, today_start) ==
    [f EXCEPT !.errors = Append(@, [time |-> "ERR", title |-> ErrMsg(kind, host),
                                    sort_key |-> today_start])]

\* a variant: an instance that raises is reported like a failed source
ProcessEventFailureAsError(rev, f, event, utcoffset, today_start) ==
    LET n == NormalizeEvent(rev, event, utcoffset)
    IN  IF n.status = "ok" THEN AddEvent(f, n, today_start)
        ELSE IF n.status = "raise" THEN SourceError(f, "Exception", "event", today_start)
        ELSE f

\* the body of the loop over the results of one search
ProcessEvent(rev, f, event, utcoffset, today_start) ==
    LET n == NormalizeEvent(rev, event, utcoffset)
    IN  IF n.status = "ok" THEN AddEvent(f, n, today_start) ELSE f

\* list.sort(key=...): a stable insertion of x after the entries not above it
RECURSIVE InsertByTitle(_, _)
InsertByTitle(sorted, x) ==
    IF sorted = <<>> THEN <<x>>
    ELSE IF StrLess(x.title, Head(sorted).title) THEN <<x>> \o sorted
    ELSE <<Head(sorted)>> \o InsertByTitle(Tail(sorted), x)

RECURSIVE SortByTitle(_)
SortByTitle(s) ==
    IF s = <<>> THEN <<>>
    ELSE InsertByTitle(SortByTitle(SubSeq(s, 1, Len(s) - 1)), s[Len(s)])

RECURSIVE InsertBySortKey(_, _)
InsertBySortKey(sorted, x) ==
    IF sorted = <<>> THEN <<x>>
    ELSE IF x.sort_key < Head(sorted).sort_key THEN <<x>> \o sorted
    ELSE <<Head(sorted)>> \o InsertBySortKey(Tail(sorted), x)

RECURSIVE SortBySortKey(_)
SortBySortKey(s) ==
    IF s = <<>> THEN <<>>
    ELSE InsertBySortKey(SortBySortKey(SubSeq(s, 1, Len(s) - 1)), s[Len(s)])

\* a variant: the errors after the all-day entries
TodayEventsErrorsSecond(f) ==
    SortByTitle(f.all_today) \o f.errors \o SortBySortKey(f.timed_today)

\* a variant: the errors in both lists
TomorrowEventsWithErrors(f) ==
    f.errors \o SortByTitle(f.all_tomorrow) \o SortBySortKey(f.timed_tomorrow)

\* the two returned lists
TodayEvents(f) == f.errors \o SortByTitle(f.all_today) \o SortBySortKey(f.timed_today)
TomorrowEvents(f) == SortByTitle(f.all_tomorrow) \o SortBySortKey(f.timed_tomorrow)

\* ------------------------------------------------------------------ inputs
\* the wall-clock reading of datetime.now(user_tz) at the refresh
NowLocal == SecondsPerDay + Hms(10, 0, 0)

\* now_local.replace(hour=0, minute=0, second=0, microsecond=0)
StartOfToday(now_local) == now_local - (now_local % SecondsPerDay)

ListV == [type |-> "list", day |-> 0, secs |-> 0, aware |-> FALSE, off |-> 0]

Event(summary, dtstart, rid) ==
    [data |-> "vevent", summary |-> summary, dtstart |-> dtstart, rid |-> rid]
BadData(kind) == [data |-> kind, summary |-> "", dtstart |-> NoProp, rid |-> NoProp]

\* the raw instances a search returns in the runs: days 0..3 are
\* yesterday, today, tomorrow and the day after
EventSamples ==
    {BadData("none"), BadData("garbage"), BadData("novevent"),
     Event("", NaiveV(1, Hms(9, 0, 0)), NoProp),
     Event("Standup", NoProp, NoProp),
     Event("Standup", ListV, NoProp)}
    \cup {Event(t, DateV(1), NoProp) : t \in Titles}
    \cup {Event("Holiday", DateV(2), NoProp), Event("Holiday", DateV(3), NoProp)}
    \cup {Event(t, NaiveV(1, Hms(9, 0, 0)), NoProp) : t \in {"Standup", "Holiday"}}
    \cup {Event("Standup", s, NoProp) :
            s \in {AwareV(1, Hms(14, 0, 30), 0),
                   AwareV(1, Hms(15, 0, 0), SecondsPerHour),
                   NaiveV(2, Hms(9, 0, 0)),
                   AwareV(2, Hms(13, 0, 0), 0),
                   AwareV(1, Hms(4, 59, 59), 0),
                   AwareV(3, Hms(5, 0, 0), 0)}}

\* -------------------------------------------------------------------- state
VARIABLES
    rev,             \* the revision that runs
    user,            \* the user whose events are fetched
    pc,              \* the position in fetch_calendar_events
    url_idx,         \* the index of url in caldav_urls
    ncals,           \* len(calendars) of the current source
    cal_idx,         \* the index of calendar in calendars
    f,               \* the locals of fetch_calendar_events
    today_events,    \* the first returned list
    tomorrow_events, \* the second returned list
    log,             \* history: the instances handled, in order
    srclog,          \* history: the outcome of each source, in order
    APP_DATA,        \* the published map, user to snapshot
    new_data,        \* the map a refresh cycle builds
    rpc,             \* the position in refresh_all_data
    user_idx,        \* the index of user_hash in USER_CONFIG
    cycle,           \* the number of the refresh cycle
    raised_in,       \* history: the users whose refresh raised in this cycle
    fetched,         \* history: what the fetches of this cycle returned, by user
    mode,            \* how the module is loaded: run as a script or imported
    mpc,             \* the position of the main thread
    bpc,             \* the position of the background thread
    req,             \* the display_image request in flight and its answer
    answers,         \* what the sources answer to a call taken as a whole
    client           \* the embedded client: its position and its history

fvars == <<user, pc, url_idx, ncals, cal_idx, f, today_events, tomorrow_events, log, srclog>>
pvars == <<mode, mpc, bpc, req>>
rvars == <<APP_DATA, new_data, rpc, user_idx, cycle, raised_in, fetched, pvars>>
vars == <<rev, user, pc, url_idx, ncals, cal_idx, f, today_events, tomorrow_events, log, srclog,
          APP_DATA, new_data, rpc, user_idx, cycle, raised_in, fetched, mode, mpc, bpc, req,
          answers, client>>

config == UserConfig(rev, user)
caldav_urls == config.caldav_urls
today_start == StartOfToday(NowLocal)

EmptyMap == [u \in {} |-> 0]

\* no request is in flight
NoRequest == [pc |-> "none", user_hash |-> "", user_data |-> [present |-> FALSE, last_updated |-> 0],
              obj |-> <<>>, store |-> {}, during |-> 0, status |-> 0]

\* the embedded client after boot.py: main.py is at the top of its loop
ClientBoot == [pc |-> "cycle", wake |-> 1, connected |-> FALSE, image_data |-> "None",
               wifi |-> "untried", fetches |-> 0, history |-> <<>>]

\* the globals after the module is loaded
InitGlobals ==
    /\ rev \in Revisions
    /\ APP_DATA = EmptyMap
    /\ new_data = EmptyMap
    /\ rpc = "idle"
    /\ user_idx = 0
    /\ cycle = 0
    /\ raised_in = {}
    /\ fetched = EmptyMap
    /\ mpc = "load"
    /\ bpc = "none"
    /\ req = NoRequest
    /\ answers = <<>>
    /\ client = ClientBoot

Init ==
    /\ InitGlobals
    /\ mode = "script"
    /\ user \in {Users[i] : i \in 1..Len(Users)}
    /\ pc = "call"
    /\ url_idx = 0
    /\ ncals = 0
    /\ cal_idx = 0
    /\ f = EmptyLocals
    /\ today_events = <<>>
    /\ tomorrow_events = <<>>
    /\ log = <<>>
    /\ srclog = <<>>

\* lines 296-306 / 449-459: the locals and the first url
Enter ==
    /\ pc = "call"
    /\ pc' = "source"
    /\ url_idx' = 1
    /\ f' = EmptyLocals
    /\ UNCHANGED <<rev, answers, client, user, ncals, cal_idx, today_events, tomorrow_events, log, srclog>>
    /\ UNCHANGED rvars

\* an exception of the source: one ERR entry, then the next url
SourceFails(locals, kind) ==
    /\ f' = SourceError(locals, kind, caldav_urls[url_idx], today_start)
    /\ srclog' = Append(srclog, "failed")
    /\ url_idx' = url_idx + 1
    /\ pc' = "source"
    /\ UNCHANGED <<rev, answers, client, user, ncals, cal_idx, today_events, tomorrow_events, log>>
    /\ UNCHANGED rvars

\* the else clause of the try, or the continue of an empty calendar list
SourceSucceeds(locals) ==
    /\ f' = locals
    /\ srclog' = Append(srclog, "ok")
    /\ url_idx' = url_idx + 1
    /\ pc' = "source"
    /\ UNCHANGED <<rev, answers, client, user, ncals, cal_idx, today_events, tomorrow_events, log>>
    /\ UNCHANGED rvars

\* urlparse, DAVClient, principal() or calendars() raises
ConnectFails ==
    /\ pc = "source"
    /\ url_idx <= Len(caldav_urls)
    /\ \E kind \in FailureKinds : SourceFails(Connect(f, caldav_urls[url_idx]), kind)

\* principal.calendars() returns no calendar
NoCalendars ==
    /\ pc = "source"
    /\ url_idx <= Len(caldav_urls)
    /\ SourceSucceeds(Connect(f, caldav_urls[url_idx]))

\* principal.calendars() returns n calendars
ListCalendars ==
    /\ pc = "source"
    /\ url_idx <= Len(caldav_urls)
    /\ \E n \in 1..MaxCalendars :
        /\ ncals' = n
        /\ cal_idx' = 1
        /\ pc' = "calendar"
    /\ f' = Connect(f, caldav_urls[url_idx])
    /\ UNCHANGED <<rev, answers, client, user, url_idx, today_events, tomorrow_events, log, srclog>>
    /\ UNCHANGED rvars

\* the name the filter set is asked for
FilterKey(r, name) == IF r = "server" THEN Lower(name) ELSE name

\* the calendar is left out by the name filter
FilteredOut(r, name, caldav_filters) ==
    caldav_filters # {} /\ FilterKey(r, name) \notin caldav_filters

\* server: calendar.name is None and None has no lower()
CalendarNameRaises ==
    /\ pc = "calendar"
    /\ cal_idx <= ncals
    /\ rev = "server"
    /\ SourceFails(f, "Exception")

\* the calendar is skipped by the filter
CalendarFiltered ==
    /\ pc = "calendar"
    /\ cal_idx <= ncals
    /\ \E name \in CalendarNames :
        /\ rev = "server" => name # NameNone
        /\ FilteredOut(rev, name, config.caldav_filters)
    /\ cal_idx' = cal_idx + 1
    /\ UNCHANGED <<rev, answers, client, user, pc, url_idx, ncals, f, today_events, tomorrow_events, log, srclog>>
    /\ UNCHANGED rvars

\* calendar.date_search raises
SearchFails ==
    /\ pc = "calendar"
    /\ cal_idx <= ncals
    /\ \E name \in CalendarNames :
        /\ rev = "server" => name # NameNone
        /\ ~FilteredOut(rev, name, config.caldav_filters)
    /\ \E kind \in FailureKinds : SourceFails(f, kind)

\* calendar.date_search returns its results
SearchReturns ==
    /\ pc = "calendar"
    /\ cal_idx <= ncals
    /\ \E name \in CalendarNames :
        /\ rev = "server" => name # NameNone
        /\ ~FilteredOut(rev, name, config.caldav_filters)
    /\ pc' = "results"
    /\ UNCHANGED <<rev, answers, client, user, url_idx, ncals, cal_idx, f, today_events, tomorrow_events, log, srclog>>
    /\ UNCHANGED rvars

\* one iteration of the loop over the results
HandleEvent ==
    /\ pc = "results"
    /\ Len(log) < MaxEvents
    /\ \E event \in EventSamples :
        /\ f' = ProcessEvent(rev, f, event, config.utcoffset, today_start)
        /\ log' = Append(log, [src |-> url_idx, cal |-> cal_idx, event |-> event])
    /\ UNCHANGED <<rev, answers, client, user, pc, url_idx, ncals, cal_idx, today_events, tomorrow_events, srclog>>
    /\ UNCHANGED rvars

\* the results are exhausted: the next calendar
ResultsDone ==
    /\ pc = "results"
    /\ pc' = "calendar"
    /\ cal_idx' = cal_idx + 1
    /\ UNCHANGED <<rev, answers, client, user, url_idx, ncals, f, today_events, tomorrow_events, log, srclog>>
    /\ UNCHANGED rvars

\* the calendars are exhausted: the next url
CalendarsDone ==
    /\ pc = "calendar"
    /\ cal_idx > ncals
    /\ SourceSucceeds(f)

\* lines 472-477 / 608-615: the sorts and the two returned lists
Return ==
    /\ pc = "source"
    /\ url_idx > Len(caldav_urls)
    /\ today_events' = TodayEvents(f)
    /\ tomorrow_events' = TomorrowEvents(f)
    /\ pc' = "done"
    /\ UNCHANGED <<rev, answers, client, user, url_idx, ncals, cal_idx, f, log, srclog>>
    /\ UNCHANGED rvars

Next ==
    \/ Enter
    \/ ConnectFails
    \/ NoCalendars
    \/ ListCalendars
    \/ CalendarNameRaises
    \/ CalendarFiltered
    \/ SearchFails
    \/ SearchReturns
    \/ HandleEvent
    \/ ResultsDone
    \/ CalendarsDone
    \/ Return

Spec == Init /\ [][Next]_vars

\* ---------------------------------------------------------- refresh cycle
\* fetch_calendar_events as one call, on the responses of the sources: one
\* record per url, fail the exception of the connection ("none": it
\* connects), calendars the calendars listed, each with its name, the
\* exception of its search and its results
RECURSIVE ProcessResults(_, _, _, _, _)
ProcessResults(r, locals, results, utcoffset, start) ==
    IF results = <<>> THEN locals
    ELSE ProcessResults(r, ProcessEvent(r, locals, Head(results), utcoffset, start),
                        Tail(results), utcoffset, start)

\* the loop over the calendars of one source: the locals it leaves and the
\* exception that ended it, if any
RECURSIVE ProcessCalendars(_, _, _, _, _, _)
ProcessCalendars(r, locals, calendars, caldav_filters, utcoffset, start) ==
    IF calendars = <<>> THEN [f |-> locals, fail |-> "none"]
    ELSE LET calendar == Head(calendars)
         IN  IF r = "server" /\ calendar.name = NameNone
             THEN [f |-> locals, fail |-> "Exception"]
             ELSE IF FilteredOut(r, calendar.name, caldav_filters)
             THEN ProcessCalendars(r, locals, Tail(calendars), caldav_filters, utcoffset, start)
             ELSE IF calendar.fail # "none"
             THEN [f |-> locals, fail |-> calendar.fail]
             ELSE ProcessCalendars(r,
                      ProcessResults(r, locals, calendar.results, utcoffset, start),
                      Tail(calendars), caldav_filters, utcoffset, start)

\* a variant: a source that lists no calendar is reported as failed
ProcessSourceEmptyFails(r, locals, source, host, caldav_filters, utcoffset, start) ==
    IF source.fail # "none" THEN SourceError(Connect(locals, host), source.fail, host, start)
    ELSE IF source.calendars = <<>>
    THEN SourceError(Connect(locals, host), "Exception", host, start)
    ELSE LET done == ProcessCalendars(r, Connect(locals, host), source.calendars,
                                      caldav_filters, utcoffset, start)
         IN  IF done.fail # "none" THEN SourceError(done.f, done.fail, host, start)
             ELSE done.f

\* a variant: a source that fails loses what its calendars had added
ProcessSourceDropsCollected(r, locals, source, host, caldav_filters, utcoffset, start) ==
    IF source.fail # "none" THEN SourceError(Connect(locals, host), source.fail, host, start)
    ELSE LET done == ProcessCalendars(r, Connect(locals, host), source.calendars,
                                      caldav_filters, utcoffset, start)
         IN  IF done.fail # "none"
             THEN SourceError(Connect(locals, host), done.fail, host, start)
             ELSE done.f

\* a variant: a source whose connection fails is tried a second time
ProcessSourceRetries(r, locals, source, host, caldav_filters, utcoffset, start) ==
    IF source.fail # "none"
    THEN SourceError(Connect(Connect(locals, host), host), source.fail, host, start)
    ELSE LET done == ProcessCalendars(r, Connect(locals, host), source.calendars,
                                      caldav_filters, utcoffset, start)
         IN  IF done.fail # "none" THEN SourceError(done.f, done.fail, host, start)
             ELSE done.f

\* the try statement of one url
ProcessSource(r, locals, source, host, caldav_filters, utcoffset, start) ==
    IF source.fail # "none" THEN SourceError(Connect(locals, host), source.fail, host, start)
    ELSE LET done == ProcessCalendars(r, Connect(locals, host), source.calendars,
                                      caldav_filters, utcoffset, start)
         IN  IF done.fail # "none" THEN SourceError(done.f, done.fail, host, start)
             ELSE done.f

RECURSIVE ProcessSources(_, _, _, _, _, _, _)
ProcessSources(r, locals, urls, response, caldav_filters, utcoffset, start) ==
    IF urls = <<>> THEN locals
    ELSE ProcessSources(r,
             ProcessSource(r, locals, Head(response), Head(urls), caldav_filters,
                           utcoffset, start),
             Tail(urls), Tail(response), caldav_filters, utcoffset, start)

FetchCalendarEvents(r, cfg, response, start) ==
    LET locals == ProcessSources(r, EmptyLocals, cfg.caldav_urls, response,
                                 cfg.caldav_filters, cfg.utcoffset, start)
    IN  [today_events |-> TodayEvents(locals), tomorrow_events |-> TomorrowEvents(locals),
         contacted |-> locals.contacted]

\* what one source answers in the refresh cycles
SourceSamples ==
    {[fail |-> "Timeout", calendars |-> <<>>],
     [fail |-> "none",
      calendars |-> <<[name |-> "work", fail |-> "none",
                       results |-> <<Event("Standup", AwareV(1, Hms(14, 0, 30), 0), NoProp),
                                     Event("Holiday", DateV(1), NoProp)>>]>>]}

\* the answers of the n sources of a user
RECURSIVE Responses(_)
Responses(n) ==
    IF n = 0 THEN {<<>>}
    ELSE {<<s>> \o rest : s \in SourceSamples, rest \in Responses(n - 1)}

\* fetch_weather_data: the dict of the forecast, or None
WeatherResults == {"forecast", "None"}

AllUsers == {Users[i] : i \in 1..Len(Users)}

\* the module is run as a script (python app.py) or imported by a WSGI server
Modes == {"script", "wsgi"}

\* refresh_all_data is entered by its caller: new_data = {}
RefreshStart ==
    /\ rpc = "idle"
    /\ cycle' = cycle + 1
    /\ new_data' = EmptyMap
    /\ fetched' = EmptyMap
    /\ user_idx' = 1
    /\ raised_in' = {}
    /\ rpc' = "users"
    /\ UNCHANGED <<rev, answers, client, APP_DATA, mode, req>>
    /\ UNCHANGED fvars

\* the initial fetch is in the code that runs when the module is loaded:
\* in app under __name__ == "__main__", in server at the module level
RunsInitialFetch(r, m) == r = "server" \/ m = "script"

\* the main thread calls refresh_all_data before it starts the thread
InitialFetch ==
    /\ mpc = "load"
    /\ RunsInitialFetch(rev, mode)
    /\ RefreshStart
    /\ mpc' = "initial"
    /\ UNCHANGED bpc

\* app imported by a WSGI server: the block under __main__ is not run, the
\* routes are served with no fetch and no thread
ImportOnly ==
    /\ mpc = "load"
    /\ ~RunsInitialFetch(rev, mode)
    /\ mpc' = "serving"
    /\ UNCHANGED <<rev, answers, client, APP_DATA, new_data, rpc, user_idx, cycle, raised_in, fetched,
                   mode, bpc, req>>
    /\ UNCHANGED fvars

\* history: the calls of fetch_weather_data for a user in the cycle so far
WeatherCalls(map, u) == IF u \in DOMAIN map THEN map[u].weather_calls ELSE 0

\* a variant: the ERR entries of the published snapshot are carried over
RefreshUserKeepsErrors ==
    /\ rpc = "users"
    /\ user_idx <= Len(Users)
    /\ LET u == Users[user_idx]
           cfg == UserConfig(rev, u)
           IsErr(entry) == entry.time = "ERR"
           old == IF u \in DOMAIN APP_DATA
                  THEN SelectSeq(APP_DATA[u].today_events, IsErr) ELSE <<>>
       IN  \E weather_info \in WeatherResults :
           \E response \in Responses(Len(cfg.caldav_urls)) :
               LET events == FetchCalendarEvents(rev, cfg, response, StartOfToday(NowLocal))
               IN  /\ new_data' = (u :> [weather |-> weather_info,
                                         today_events |-> old \o events.today_events,
                                         tomorrow_events |-> events.tomorrow_events,
                                         last_updated |-> cycle]) @@ new_data
                   /\ fetched' = (u :> [weather |-> weather_info,
                                        today_events |-> events.today_events,
                                        tomorrow_events |-> events.tomorrow_events,
                                        contacted |-> events.contacted,
                                        weather_calls |-> WeatherCalls(fetched, u) + 1])
                                 @@ fetched
    /\ user_idx' = user_idx + 1
    /\ UNCHANGED <<rev, answers, client, APP_DATA, rpc, cycle, raised_in>>
    /\ UNCHANGED pvars
    /\ UNCHANGED fvars

\* a variant: a failed weather fetch ends the iteration of the user
RefreshUserWeatherFatal ==
    /\ rpc = "users"
    /\ user_idx <= Len(Users)
    /\ LET u == Users[user_idx]
           cfg == UserConfig(rev, u)
       IN  \E weather_info \in WeatherResults :
           \E response \in Responses(Len(cfg.caldav_urls)) :
               LET events == FetchCalendarEvents(rev, cfg, response, StartOfToday(NowLocal))
               IN  IF weather_info = "None"
                   THEN /\ new_data' = new_data
                        /\ fetched' = (u :> [weather |-> weather_info,
                                             today_events |-> <<>>,
                                             tomorrow_events |-> <<>>,
                                             contacted |-> <<>>,
                                             weather_calls |-> WeatherCalls(fetched, u) + 1]) @@ fetched
                   ELSE /\ new_data' = (u :> [weather |-> weather_info,
                                              today_events |-> events.today_events,
                                              tomorrow_events |-> events.tomorrow_events,
                                              last_updated |-> cycle]) @@ new_data
                        /\ fetched' = (u :> [weather |-> weather_info,
                                             today_events |-> events.today_events,
                                             tomorrow_events |-> events.tomorrow_events,
                                        contacted |-> events.contacted,
                                        weather_calls |-> WeatherCalls(fetched, u) + 1])
                                      @@ fetched
    /\ user_idx' = user_idx + 1
    /\ UNCHANGED <<rev, answers, client, APP_DATA, rpc, cycle, raised_in>>
    /\ UNCHANGED pvars
    /\ UNCHANGED fvars

\* a variant: the snapshot of a user is stored into the published map
RefreshUserInPlace ==
    /\ rpc = "users"
    /\ user_idx <= Len(Users)
    /\ LET u == Users[user_idx]
           cfg == UserConfig(rev, u)
       IN  \E weather_info \in WeatherResults :
           \E response \in Responses(Len(cfg.caldav_urls)) :
               LET events == FetchCalendarEvents(rev, cfg, response, StartOfToday(NowLocal))
                   snapshot == [weather |-> weather_info,
                                today_events |-> events.today_events,
                                tomorrow_events |-> events.tomorrow_events,
                                last_updated |-> cycle]
               IN  /\ new_data' = (u :> snapshot) @@ new_data
                   /\ APP_DATA' = (u :> snapshot) @@ APP_DATA
                   /\ fetched' = (u :> [weather |-> weather_info,
                                        today_events |-> events.today_events,
                                        tomorrow_events |-> events.tomorrow_events,
                                        contacted |-> events.contacted,
                                        weather_calls |-> WeatherCalls(fetched, u) + 1])
                                 @@ fetched
    /\ user_idx' = user_idx + 1
    /\ UNCHANGED <<rev, answers, client, rpc, cycle, raised_in>>
    /\ UNCHANGED pvars
    /\ UNCHANGED fvars

\* one iteration of the loop over USER_CONFIG: the weather, the events and
\* the snapshot of the user
RefreshUser ==
    /\ rpc = "users"
    /\ user_idx <= Len(Users)
    /\ LET u == Users[user_idx]
           cfg == UserConfig(rev, u)
       IN  \E weather_info \in WeatherResults :
           \E response \in Responses(Len(cfg.caldav_urls)) :
               LET events == FetchCalendarEvents(rev, cfg, response, StartOfToday(NowLocal))
               IN  /\ new_data' = (u :> [weather |-> weather_info,
                                         today_events |-> events.today_events,
                                         tomorrow_events |-> events.tomorrow_events,
                                         last_updated |-> cycle]) @@ new_data
                   /\ fetched' = (u :> [weather |-> weather_info,
                                        today_events |-> events.today_events,
                                        tomorrow_events |-> events.tomorrow_events,
                                        contacted |-> events.contacted,
                                        weather_calls |-> WeatherCalls(fetched, u) + 1])
                                 @@ fetched
    /\ user_idx' = user_idx + 1
    /\ UNCHANGED <<rev, answers, client, APP_DATA, rpc, cycle, raised_in>>
    /\ UNCHANGED pvars
    /\ UNCHANGED fvars

\* a variant: a cycle that raises publishes the snapshots it has stored
RefreshUserRaisesPublishes ==
    /\ rpc = "users"
    /\ user_idx <= Len(Users)
    /\ raised_in' = raised_in \cup {Users[user_idx]}
    /\ rpc' = "raised"
    /\ APP_DATA' = new_data @@ APP_DATA
    /\ UNCHANGED <<rev, answers, client, new_data, user_idx, cycle, fetched>>
    /\ UNCHANGED pvars
    /\ UNCHANGED fvars

\* an exception leaves the iteration of a user: the loop has no handler, the
\* exception leaves refresh_all_data
RefreshUserRaises ==
    /\ rpc = "users"
    /\ user_idx <= Len(Users)
    /\ raised_in' = raised_in \cup {Users[user_idx]}
    /\ rpc' = "raised"
    /\ UNCHANGED <<rev, answers, client, APP_DATA, new_data, user_idx, cycle, fetched>>
    /\ UNCHANGED pvars
    /\ UNCHANGED fvars

\* with APP_DATA_LOCK: APP_DATA = new_data
Publish ==
    /\ rpc = "users"
    /\ user_idx > Len(Users)
    /\ APP_DATA' = new_data
    /\ rpc' = "returned"
    /\ UNCHANGED <<rev, answers, client, new_data, user_idx, cycle, raised_in, fetched>>
    /\ UNCHANGED pvars
    /\ UNCHANGED fvars

\* the initial fetch returns: the thread is started and the routes are served
InitialFetchReturns ==
    /\ mpc = "initial"
    /\ rpc = "returned"
    /\ rpc' = "idle"
    /\ bpc' = "sleep"
    /\ mpc' = "serving"
    /\ UNCHANGED <<rev, answers, client, APP_DATA, new_data, user_idx, cycle, raised_in, fetched, mode, req>>
    /\ UNCHANGED fvars

\* the initial fetch raises: server catches the exception and goes on, app
\* has no handler and the process ends with the traceback
InitialFetchRaises ==
    /\ mpc = "initial"
    /\ rpc = "raised"
    /\ rpc' = "idle"
    /\ IF rev = "server"
       THEN bpc' = "sleep" /\ mpc' = "serving"
       ELSE bpc' = bpc /\ mpc' = "exited"
    /\ UNCHANGED <<rev, answers, client, APP_DATA, new_data, user_idx, cycle, raised_in, fetched, mode, req>>
    /\ UNCHANGED fvars

\* background_refresh_loop: time.sleep returns and refresh_all_data is called
Wake ==
    /\ bpc = "sleep"
    /\ cycle < MaxCycles
    /\ RefreshStart
    /\ bpc' = "refresh"
    /\ UNCHANGED mpc

\* a variant: the exception of a cycle ends the thread
CycleOverThreadDies ==
    /\ bpc = "refresh"
    /\ rpc \in {"returned", "raised"}
    /\ rpc' = "idle"
    /\ bpc' = IF rpc = "raised" THEN "dead" ELSE "sleep"
    /\ UNCHANGED <<rev, answers, client, APP_DATA, new_data, user_idx, cycle, raised_in, fetched, mode, mpc, req>>
    /\ UNCHANGED fvars

\* background_refresh_loop: the call returns, or its exception is caught
\* by except Exception; the loop goes back to its sleep
CycleOver ==
    /\ bpc = "refresh"
    /\ rpc \in {"returned", "raised"}
    /\ rpc' = "idle"
    /\ bpc' = "sleep"
    /\ UNCHANGED <<rev, answers, client, APP_DATA, new_data, user_idx, cycle, raised_in, fetched, mode, mpc, req>>
    /\ UNCHANGED fvars

NextRefresh ==
    \/ InitialFetch
    \/ ImportOnly
    \/ RefreshUser
    \/ RefreshUserRaises
    \/ Publish
    \/ InitialFetchReturns
    \/ InitialFetchRaises
    \/ Wake
    \/ CycleOver

InitRefresh ==
    /\ InitGlobals
    /\ mode \in Modes
    /\ user = Users[1]
    /\ pc = "call"
    /\ url_idx = 0
    /\ ncals = 0
    /\ cal_idx = 0
    /\ f = EmptyLocals
    /\ today_events = <<>>
    /\ tomorrow_events = <<>>
    /\ log = <<>>
    /\ srclog = <<>>

SpecRefresh == InitRefresh /\ [][NextRefresh]_vars

\* the threads run on: a sleep returns, a call that was made goes to its end
SpecLoop == InitRefresh /\ [][NextRefresh]_vars /\ WF_vars(NextRefresh)

\* --------------------------------------------------------- display_image
\* the ids a request names: the configured users and one that is not
RequestIds == AllUsers \cup {"nobody"}

\* APP_DATA.get(user_hash): None, or the snapshot, of which the handler
\* keeps the time of its refresh
NoneData == [present |-> FALSE, last_updated |-> 0]
Get(map, user_hash) ==
    IF user_hash \in DOMAIN map
    THEN [present |-> TRUE, last_updated |-> map[user_hash].last_updated]
    ELSE NoneData

\* the identity of the dict that `new_data[user_hash] = {...}` builds in the
\* cycle of a snapshot, the object the published map holds for the user
StoredObject(map, user_hash) == <<"dict", user_hash, map[user_hash].last_updated>>

\* the identity of the object APP_DATA.get(user_hash) returns: dict.get
\* returns the value the dict holds, no copy is made
GetObject(map, user_hash) ==
    IF user_hash \in DOMAIN map THEN StoredObject(map, user_hash) ELSE <<>>

\* history: the users of a map, each with the cycle that made its snapshot
StoreOf(map) == {<<u, map[u].last_updated>> : u \in DOMAIN map}

\* a variant: the answers of the two failures are exchanged
DisplayImageAnswerSwapped ==
    /\ req.pc = "read"
    /\ \E status \in {200, 500} :
          req' = [req EXCEPT !.pc = "answered",
                             !.status = IF req.user_data.present THEN status ELSE 404]
    /\ UNCHANGED <<rev, answers, client, APP_DATA, new_data, rpc, user_idx, cycle, raised_in, fetched,
                   mode, mpc, bpc>>
    /\ UNCHANGED fvars

\* a variant: a request that finds no snapshot waits for the running cycle
\* to end before it reads
DisplayImageReadWaits ==
    /\ mpc = "serving"
    /\ req.pc \in {"none", "answered"}
    /\ \E user_hash \in RequestIds :
          /\ user_hash \in AllUsers /\ user_hash \notin DOMAIN APP_DATA => rpc # "users"
          /\ req' = IF user_hash \notin AllUsers
                    THEN [pc |-> "answered", user_hash |-> user_hash, user_data |-> NoneData,
                          obj |-> <<>>, store |-> StoreOf(APP_DATA),
                          during |-> IF rpc = "users" THEN cycle ELSE 0, status |-> 404]
                    ELSE [pc |-> "read", user_hash |-> user_hash,
                          user_data |-> Get(APP_DATA, user_hash),
                          obj |-> GetObject(APP_DATA, user_hash),
                          store |-> StoreOf(APP_DATA),
                          during |-> IF rpc = "users" THEN cycle ELSE 0, status |-> 0]
    /\ UNCHANGED <<rev, answers, client, APP_DATA, new_data, rpc, user_idx, cycle, raised_in, fetched,
                   mode, mpc, bpc>>
    /\ UNCHANGED fvars

\* the route is entered: 404 for a user_hash that is not in USER_CONFIG,
\* else user_data = APP_DATA.get(user_hash) with APP_DATA_LOCK held
DisplayImageRead ==
    /\ mpc = "serving"
    /\ req.pc \in {"none", "answered"}
    /\ \E user_hash \in RequestIds :
          req' = IF user_hash \notin AllUsers
                 THEN [pc |-> "answered", user_hash |-> user_hash, user_data |-> NoneData,
                       obj |-> <<>>, store |-> StoreOf(APP_DATA),
                       during |-> IF rpc = "users" THEN cycle ELSE 0, status |-> 404]
                 ELSE [pc |-> "read", user_hash |-> user_hash,
                       user_data |-> Get(APP_DATA, user_hash),
                       obj |-> GetObject(APP_DATA, user_hash),
                       store |-> StoreOf(APP_DATA),
                       during |-> IF rpc = "users" THEN cycle ELSE 0, status |-> 0]
    /\ UNCHANGED <<rev, answers, client, APP_DATA, new_data, rpc, user_idx, cycle, raised_in, fetched,
                   mode, mpc, bpc>>
    /\ UNCHANGED fvars

\* the rest of the route: 503 if not user_data, else the image (200), or
\* 500 when the image cannot be made
DisplayImageAnswer ==
    /\ req.pc = "read"
    /\ \E status \in {200, 500} :
          req' = [req EXCEPT !.pc = "answered",
                             !.status = IF req.user_data.present THEN status ELSE 503]
    /\ UNCHANGED <<rev, answers, client, APP_DATA, new_data, rpc, user_idx, cycle, raised_in, fetched,
                   mode, mpc, bpc>>
    /\ UNCHANGED fvars

NextServe ==
    \/ InitialFetch
    \/ ImportOnly
    \/ RefreshUser
    \/ RefreshUserRaises
    \/ Publish
    \/ InitialFetchReturns
    \/ InitialFetchRaises
    \/ Wake
    \/ CycleOver
    \/ DisplayImageRead
    \/ DisplayImageAnswer

SpecServe == InitRefresh /\ [][NextServe]_vars

\* ------------------------------------------------------------ single calls
\* fetch_calendar_events called on one calendar that holds one instance:
\* the values of DTSTART and of RECURRENCE-ID of the instance
StartSamples ==
    {DateV(1), DateV(2), DateV(3),
     NaiveV(1, Hms(9, 0, 0)), NaiveV(2, Hms(14, 30, 0)),
     AwareV(1, Hms(14, 0, 30), 0), AwareV(2, Hms(2, 0, 0), 0)}

RecurrenceSamples ==
    {NoProp, OtherV, DateV(1), DateV(2),
     NaiveV(2, Hms(9, 0, 0)), AwareV(2, Hms(13, 0, 0), 0), AwareV(1, Hms(15, 0, 0), 0)}

\* the first source lists the calendar, the other sources list none
CallResponse(n, calendar) ==
    [j \in 1..n |-> IF j = 1 THEN [fail |-> "none", calendars |-> <<calendar>>]
                    ELSE [fail |-> "none", calendars |-> <<>>]]

\* one call of fetch_calendar_events, from its entry to its return
FetchCall ==
    /\ pc = "call"
    /\ \E name \in CalendarNames, fail \in {"none", "Timeout"},
          dtstart \in StartSamples, rid \in RecurrenceSamples :
          LET event == Event("Standup", dtstart, rid)
              calendar == [name |-> name, fail |-> fail, results |-> <<event>>]
              events == FetchCalendarEvents(rev, config,
                            CallResponse(Len(caldav_urls), calendar), today_start)
          IN  /\ today_events' = events.today_events
              /\ tomorrow_events' = events.tomorrow_events
              /\ log' = <<[src |-> 1, cal |-> 1, event |-> event,
                           name |-> name, fail |-> fail]>>
    /\ pc' = "done"
    /\ UNCHANGED <<rev, answers, client, user, url_idx, ncals, cal_idx, f, srclog>>
    /\ UNCHANGED rvars

SpecCall == Init /\ [][FetchCall]_vars

\* ------------------------------------------------------------- whole calls
\* fetch_calendar_events called on sources that list up to MaxListed
\* calendars, each with at most one instance
FirstStandup == Event("Standup", AwareV(1, Hms(14, 0, 30), 0), NoProp)
OtherStandup == Event("Standup", AwareV(1, Hms(14, 0, 0), 0), NoProp)
HolidayToday == Event("Holiday", DateV(1), NoProp)

CalendarAnswers ==
    {[name |-> "Work", fail |-> "none", results |-> r] :
        r \in {<<>>, <<FirstStandup>>, <<OtherStandup>>, <<HolidayToday>>}}
    \cup {[name |-> "Work", fail |-> "Timeout", results |-> <<>>],
          [name |-> NameNone, fail |-> "none", results |-> <<FirstStandup>>]}

\* the sequences of at most n calendars
RECURSIVE CalendarLists(_)
CalendarLists(n) ==
    IF n = 0 THEN {<<>>}
    ELSE CalendarLists(n - 1)
         \cup {<<c>> \o rest : c \in CalendarAnswers,
                               rest \in {l \in CalendarLists(n - 1) : Len(l) = n - 1}}

SourceAnswers ==
    {[fail |-> k, calendars |-> <<>>] : k \in {"Timeout", "AuthorizationError"}}
    \cup {[fail |-> "none", calendars |-> l] : l \in CalendarLists(MaxListed)}

\* history: the instances the sources hold, in the order of the sources,
\* of their calendars and of the results
RECURSIVE InstancesOfCalendars(_, _, _)
InstancesOfCalendars(j, calendars, k) ==
    IF k > Len(calendars) THEN <<>>
    ELSE [i \in 1..Len(calendars[k].results) |->
             [src |-> j, cal |-> k, event |-> calendars[k].results[i],
              name |-> calendars[k].name, fail |-> calendars[k].fail]]
         \o InstancesOfCalendars(j, calendars, k + 1)

RECURSIVE InstancesOfSources(_, _)
InstancesOfSources(resp, j) ==
    IF j > Len(resp) THEN <<>>
    ELSE InstancesOfCalendars(j, resp[j].calendars, 1) \o InstancesOfSources(resp, j + 1)

\* one call of fetch_calendar_events, from its entry to its return
FetchAll ==
    /\ pc = "call"
    /\ \E resp \in [1..Len(caldav_urls) -> SourceAnswers] :
          LET events == FetchCalendarEvents(rev, config, resp, today_start)
          IN  /\ answers' = resp
              /\ today_events' = events.today_events
              /\ tomorrow_events' = events.tomorrow_events
              /\ log' = InstancesOfSources(resp, 1)
    /\ pc' = "done"
    /\ UNCHANGED <<rev, client, user, url_idx, ncals, cal_idx, f, srclog>>
    /\ UNCHANGED rvars

SpecFetch == Init /\ [][FetchAll]_vars

\* ------------------------------------------------- the terms of the claims
\* The normalization as the specification words it (section 4.2), against
\* which the returned lists are read.
RefValid(e) ==
    /\ e.data = "vevent"
    /\ e.summary # ""
    /\ e.dtstart.type \in {"date", "datetime"}
    /\ e.rid.type \in {"none", "date", "datetime"}

RefStart(e) ==
    IF e.rid.type = "datetime" THEN e.rid
    ELSE IF e.rid.type = "date"
    THEN IF e.dtstart.type = "date" THEN e.rid ELSE [e.dtstart EXCEPT !.day = e.rid.day]
    ELSE e.dtstart

RefAllDay(e) == RefStart(e).type = "date"

RefWall(e) ==
    LET st == RefStart(e)
    IN  IF st.type = "datetime" /\ st.aware
        THEN st.day * SecondsPerDay + st.secs - st.off + config.utcoffset
        ELSE st.day * SecondsPerDay + st.secs

RefTime(e) == IF RefAllDay(e) THEN "All Day" ELSE StrfTime(RefWall(e))

DayOf(wall) ==
    IF today_start <= wall /\ wall < today_start + SecondsPerDay THEN "today"
    ELSE IF today_start + SecondsPerDay <= wall /\ wall < today_start + 2 * SecondsPerDay
    THEN "tomorrow"
    ELSE "none"

Days == {"today", "tomorrow"}
Returned(day) == IF day = "today" THEN today_events ELSE tomorrow_events

\* the positions of a returned list that hold the pair (time, title)
Holding(list, time, title) ==
    {k \in DOMAIN list : list[k].time = time /\ list[k].title = title}

IsTimed(entry) == entry.time # "ERR" /\ entry.time # "All Day"
ErrCount(list) == Cardinality({k \in DOMAIN list : list[k].time = "ERR"})
FailedSources == {j \in DOMAIN srclog : srclog[j] = "failed"}

\* the instances of the log that are valid timed (all-day) events of a day
TimedOf(day) ==
    {i \in DOMAIN log : /\ RefValid(log[i].event)
                        /\ ~RefAllDay(log[i].event)
                        /\ DayOf(RefWall(log[i].event)) = day}
AllDayOf(day) ==
    {i \in DOMAIN log : /\ RefValid(log[i].event)
                        /\ RefAllDay(log[i].event)
                        /\ DayOf(RefWall(log[i].event)) = day}

\* what the revision makes of a logged instance
Norm(i) == NormalizeEvent(rev, log[i].event, config.utcoffset)
Kept(i) == Norm(i).status = "ok" /\ DayOf(Norm(i).sort_key) \in Days
InOutput(i) ==
    Holding(Returned(DayOf(Norm(i).sort_key)), Norm(i).time, Norm(i).title) # {}

\* C1: when fetch_calendar_events returns, every configured source has been
\* processed, the today list holds exactly one ERR entry per source that
\* failed, and the instances of the sources after a failed one that are
\* normalized into a day are in the returned list of that day.
C1_FailedSourceOneErrOthersProcessed ==
    pc = "done" =>
        /\ Len(srclog) = Len(caldav_urls)
        /\ ErrCount(today_events) = Cardinality(FailedSources)
        /\ \A i \in DOMAIN log :
              (\E j \in FailedSources : j < log[i].src) /\ Kept(i) => InOutput(i)

C1_Witness ==
    /\ pc = "done"
    /\ 1 \in FailedSources
    /\ \E i \in DOMAIN log : log[i].src = 2 /\ Kept(i) /\ InOutput(i)

\* C2 (as claimed): the valid timed events of a day with pairwise distinct
\* (time, title) pairs are each exactly once in the returned list of that
\* day, and the timed entries of the list ascend by sort_key.
C2_TimedEachOnceAscending ==
    pc = "done" =>
        \A day \in Days :
            (\A i, j \in TimedOf(day) :
                i # j => \/ RefTime(log[i].event) # RefTime(log[j].event)
                         \/ log[i].event.summary # log[j].event.summary)
            => /\ \A i \in TimedOf(day) :
                    Cardinality(Holding(Returned(day), RefTime(log[i].event),
                                        log[i].event.summary)) = 1
               /\ \A k, l \in DOMAIN Returned(day) :
                    k < l /\ IsTimed(Returned(day)[k]) /\ IsTimed(Returned(day)[l])
                    => Returned(day)[k].sort_key <= Returned(day)[l].sort_key

\* C3 (as claimed): the valid all-day events of a day with pairwise distinct
\* titles are each exactly once, with time "All Day", in the returned list
\* of that day, and the all-day entries of the list ascend by title, in both
\* revisions.
C3_AllDayEachOnceByTitle ==
    pc = "done" =>
        \A day \in Days :
            (\A i, j \in AllDayOf(day) :
                i # j => log[i].event.summary # log[j].event.summary)
            => /\ \A i \in AllDayOf(day) :
                    Cardinality(Holding(Returned(day), "All Day", log[i].event.summary)) = 1
               /\ \A k, l \in DOMAIN Returned(day) :
                    k < l /\ Returned(day)[k].time = "All Day" /\ Returned(day)[l].time = "All Day"
                    => ~StrLess(Returned(day)[l].title, Returned(day)[k].title)

\* C4 (as claimed): timed instances of one day that share a (time, title)
\* pair leave exactly one entry for the pair in the returned list of the
\* day, the one built from the first of them.
C4_TimedDuplicatesFirstSeen ==
    pc = "done" =>
        \A day \in Days : \A i \in TimedOf(day) :
            LET same == {j \in TimedOf(day) :
                            /\ RefTime(log[j].event) = RefTime(log[i].event)
                            /\ log[j].event.summary = log[i].event.summary}
                first == CHOOSE j \in same : \A m \in same : j <= m
                held == Holding(Returned(day), RefTime(log[i].event), log[i].event.summary)
            IN  Cardinality(same) >= 2 =>
                    /\ Cardinality(held) = 1
                    /\ \A k \in held :
                          Returned(day)[k].sort_key = RefWall(log[first].event)

\* C5 (as claimed): two all-day instances of one day with the same title
\* leave one entry; two whose titles differ only in letter case leave two.
C5_AllDayDedupByExactTitle ==
    pc = "done" =>
        \A day \in Days : \A i, j \in AllDayOf(day) :
            LET ti == log[i].event.summary
                tj == log[j].event.summary
            IN  /\ i # j /\ ti = tj
                    => Cardinality(Holding(Returned(day), "All Day", ti)) = 1
                /\ ti # tj /\ Lower(ti) = Lower(tj)
                    => /\ Cardinality(Holding(Returned(day), "All Day", ti)) = 1
                       /\ Cardinality(Holding(Returned(day), "All Day", tj)) = 1

\* C6: every returned entry other than an ERR entry has its sort_key in the
\* day of the list that holds it, and a valid instance whose start is before
\* today_start or at or after today_start + 48h is in neither list.
C6_OnlyWindowEntriesInTheirDay ==
    pc = "done" =>
        /\ \A day \in Days : \A k \in DOMAIN Returned(day) :
              Returned(day)[k].time # "ERR" => DayOf(Returned(day)[k].sort_key) = day
        /\ \A i \in DOMAIN log : \A day \in Days :
              RefValid(log[i].event) /\ DayOf(RefWall(log[i].event)) # day
              => ~\E k \in DOMAIN Returned(day) :
                    Returned(day)[k] = [time |-> RefTime(log[i].event),
                                        title |-> log[i].event.summary,
                                        sort_key |-> RefWall(log[i].event)]

C6_Witness ==
    /\ pc = "done"
    /\ \E i, j \in DOMAIN log :
          /\ RefValid(log[i].event) /\ DayOf(RefWall(log[i].event)) = "none"
          /\ Kept(j) /\ InOutput(j)

\* the group of an entry: ERR, all-day, timed
Group(entry) == IF entry.time = "ERR" THEN 0 ELSE IF entry.time = "All Day" THEN 1 ELSE 2

\* C7: in the today list the ERR entries come first, then the all-day
\* entries, then the timed ones; the tomorrow list is its all-day entries
\* followed by its timed ones.
C7_ListsGroupedErrAllDayTimed ==
    pc = "done" =>
        /\ \A k, l \in DOMAIN today_events :
              k < l => Group(today_events[k]) <= Group(today_events[l])
        /\ \A k, l \in DOMAIN tomorrow_events :
              k < l => /\ Group(tomorrow_events[k]) <= Group(tomorrow_events[l])
                       /\ Group(tomorrow_events[k]) >= 1

C7_Witness ==
    /\ pc = "done"
    /\ \A g \in 0..2 : \E k \in DOMAIN today_events : Group(today_events[k]) = g

\* C8: the tomorrow list holds no ERR entry, whichever sources failed.
C8_NoErrInTomorrow ==
    pc = "done" => ErrCount(tomorrow_events) = 0

C8_Witness ==
    /\ pc = "done"
    /\ FailedSources # {}
    /\ tomorrow_events # <<>>

\* C9: an instance that is skipped or raises while it is normalized adds no
\* ERR entry and does not fail its source, and the other instances of its
\* calendar, before and after it, that are normalized into a day are in the
\* returned list of that day.
C9_InstanceFailureSkipsOnlyItself ==
    pc = "done" =>
        \A i \in DOMAIN log :
            Norm(i).status # "ok" =>
                /\ ErrCount(today_events) = Cardinality(FailedSources)
                /\ ErrCount(tomorrow_events) = 0
                /\ \A j \in DOMAIN log :
                      /\ j # i
                      /\ log[j].src = log[i].src
                      /\ log[j].cal = log[i].cal
                      /\ Kept(j)
                      => InOutput(j)

C9_Witness ==
    /\ pc = "done"
    /\ srclog = <<"ok", "ok">>
    /\ \E i, j \in DOMAIN log :
          /\ i < j
          /\ log[j].src = log[i].src
          /\ log[j].cal = log[i].cal
          /\ Norm(i).status = "raise"
          /\ Kept(j) /\ InOutput(j)

\* the users refreshed so far in the cycle, and those of the published map
\* whose snapshot is of this cycle
CycleEnded == rpc \in {"returned", "raised"}
PublishedThisCycle ==
    {u \in DOMAIN APP_DATA : APP_DATA[u].last_updated = cycle}

\* C10 (as claimed): when the refresh of a user raises, every other user is
\* still refreshed in that cycle and its new snapshot is published at the
\* end of the cycle.
C10_OtherUsersRefreshedAfterRaise ==
    CycleEnded /\ raised_in # {} =>
        \A u \in AllUsers \ raised_in :
            u \in DOMAIN new_data /\ u \in PublishedThisCycle

\* the request in flight has read the published map
HasRead == req.pc \in {"read", "answered"} /\ req.status # 404

\* the map a cycle publishes: every configured user, refreshed by that cycle
PublishedBy(c) == {<<u, c>> : u \in AllUsers}

\* C11: the map a display_image request reads is the map of the last publish
\* (every user, all refreshed by one cycle; the empty store while no cycle has
\* published), never a map with snapshots of a cycle that is still running,
\* and user_data is the snapshot of that map.
C11_RequestReadsCompleteMap ==
    HasRead =>
        /\ req.store = {} \/ \E c \in 1..MaxCycles : req.store = PublishedBy(c)
        /\ req.during # 0 => \A p \in req.store : p[2] < req.during
        /\ \A p \in req.store :
              p[1] = req.user_hash =>
                  req.user_data = [present |-> TRUE, last_updated |-> p[2]]

C11_Witness ==
    /\ req.pc = "read"
    /\ rpc = "users"
    /\ req.during = cycle
    /\ DOMAIN new_data = {"u1"}
    /\ req.store = PublishedBy(cycle - 1)

\* C12 (as claimed): the routes are served, and the background thread runs,
\* only after one call of refresh_all_data has ended, and the map of that
\* call is published when it did not raise, in both revisions, run as a
\* script or imported.
C12_RefreshedBeforeServing ==
    (mpc = "serving" \/ bpc # "none" \/ req.pc # "none") =>
        /\ cycle >= 1
        /\ cycle = 1 /\ raised_in = {} => StoreOf(APP_DATA) = PublishedBy(1)

\* C13: a request for a user_hash that is not configured is answered 404
\* whatever the published map holds; a request for a configured user is
\* answered 503 exactly when the published map holds no snapshot of the user
\* as the request reads it, and never 404.
C13_NotFoundAndRetryLater ==
    req.pc = "answered" =>
        LET held == {p[1] : p \in req.store}
        IN  IF req.user_hash \notin AllUsers
            THEN req.status = 404
            ELSE /\ req.status # 404
                 /\ req.status = 503 <=> req.user_hash \notin held

C13_Witness ==
    /\ req.pc = "answered"
    /\ req.user_hash \in AllUsers
    /\ req.status = 503
    /\ rpc = "users" /\ new_data # EmptyMap

\* C19: a user whose weather fetch returned None still has its calendar
\* fetch run and its snapshot stored in the same cycle, and the published
\* snapshot holds None for the weather with the two lists the calendar fetch
\* of this cycle returned.
C19_WeatherFailureStillPublishes ==
    /\ rpc = "users" => DOMAIN fetched = DOMAIN new_data
    /\ rpc = "returned" =>
          \A u \in AllUsers :
              /\ u \in DOMAIN fetched
              /\ fetched[u].weather = "None" =>
                    /\ u \in DOMAIN APP_DATA
                    /\ APP_DATA[u] = [weather |-> "None",
                                      today_events |-> fetched[u].today_events,
                                      tomorrow_events |-> fetched[u].tomorrow_events,
                                      last_updated |-> cycle]

C19_Witness ==
    /\ rpc = "returned"
    /\ APP_DATA["u1"].weather = "None"
    /\ APP_DATA["u1"].last_updated = cycle
    /\ \E k \in DOMAIN APP_DATA["u1"].today_events :
          APP_DATA["u1"].today_events[k].time # "ERR"

\* C20: a cycle of the background loop that raises is followed by another
\* cycle of the loop, which runs to its end: it raises again or it publishes
\* the map of its own refresh.
C20_LoopSurvivesFailedCycle ==
    \A c \in 2..(MaxCycles - 1) :
        (bpc = "refresh" /\ rpc = "raised" /\ cycle = c)
        ~> (/\ bpc = "refresh"
            /\ cycle = c + 1
            /\ \/ rpc = "raised"
               \/ rpc = "returned" /\ StoreOf(APP_DATA) = PublishedBy(c + 1))

C20_Witness ==
    /\ bpc = "sleep"
    /\ rpc = "idle"
    /\ raised_in # {}
    /\ cycle >= 2
    /\ cycle < MaxCycles

\* the calendar of a single call, as the claims see it: its name is one of
\* the configured filter names when letter case is ignored
Matches(i) == \E n \in UserEnv(user).filter_names : Lower(n) = Lower(log[i].name)

\* the calendar of a single call is searched by the revision that runs, and
\* the search returns its instance
Searched(i) ==
    /\ log[i].fail = "none"
    /\ ~(rev = "server" /\ log[i].name = NameNone)
    /\ ~FilteredOut(rev, log[i].name, config.caldav_filters)

\* the entries of a returned list that hold a title
Titled(list, title) == {k \in DOMAIN list : list[k].title = title}

\* the entry the specification makes of an instance
RefEntry(e) == [time |-> RefTime(e), title |-> e.summary, sort_key |-> RefWall(e)]

\* the returned lists hold the entry of the instance in the list of its day,
\* when it has one, and nothing else under its title
OutputIsRef(e) ==
    \A day \in Days :
        /\ \A k \in Titled(Returned(day), e.summary) : Returned(day)[k] = RefEntry(e)
        /\ Titled(Returned(day), e.summary) # {} <=> DayOf(RefWall(e)) = day

\* C14 (as claimed): with a filter set configured, a calendar is searched
\* exactly when its name is a filter name up to letter case: the failure of
\* its search is reported, or its instance is returned, in that case only.
C14_FilterIgnoresLetterCase ==
    pc = "done" /\ UserEnv(user).filter_names # {} =>
        \A i \in DOMAIN log :
            /\ log[i].fail = "Timeout" =>
                  (Holding(today_events, "ERR", ErrMsg("Timeout", caldav_urls[1])) # {}
                   <=> Matches(i))
            /\ log[i].fail = "none" /\ Kept(i) => (InOutput(i) <=> Matches(i))

\* C15 (as claimed): an instance with a timed DTSTART and a date-only
\* RECURRENCE-ID is returned as a timed entry at the RECURRENCE-ID date with
\* the time of day and the zone of DTSTART, in the list of that day only.
C15_DateOverrideKeepsTimeOfDay ==
    pc = "done" =>
        \A i \in DOMAIN log :
            LET e == log[i].event
            IN  /\ Searched(i)
                /\ RefValid(e)
                /\ e.dtstart.type = "datetime"
                /\ e.rid.type = "date"
                => /\ RefTime(e) # "All Day"
                   /\ OutputIsRef(e)

\* C16: for an instance with a date-time RECURRENCE-ID the effective start
\* is the RECURRENCE-ID value, and every entry returned for the instance is
\* timed, with the time string and sort_key of the RECURRENCE-ID value, in
\* the list of the day of that value, whatever DTSTART is.
C16_DatetimeOverrideWins ==
    pc = "done" =>
        \A i \in DOMAIN log :
            LET e == log[i].event
            IN  RefValid(e) /\ e.rid.type = "datetime"
                => /\ EffectiveStart(rev, e.dtstart, e.rid) = e.rid
                   /\ \A day \in Days : \A k \in Titled(Returned(day), e.summary) :
                         /\ Returned(day)[k].time = StrfTime(Returned(day)[k].sort_key)
                         /\ Returned(day)[k].sort_key =
                               (IF e.rid.aware THEN AsTimezone(e.rid, config.utcoffset)
                                ELSE ReplaceTzinfo(e.rid))
                         /\ DayOf(Returned(day)[k].sort_key) = day

C16_Witness ==
    /\ pc = "done"
    /\ \E i \in DOMAIN log :
          /\ log[i].event.dtstart = DateV(1)
          /\ log[i].event.rid = AwareV(2, Hms(13, 0, 0), 0)
          /\ Titled(tomorrow_events, log[i].event.summary) # {}
          /\ Titled(today_events, log[i].event.summary) = {}

\* C17 (as claimed): a valid instance whose effective start is a zone-naive
\* date-time is normalized to the same wall-clock date and time in the
\* user's zone, time string HH:MM of it, and is returned when that time is
\* in the window, in both revisions.
C17_NaiveIsUserWallClock ==
    pc = "done" =>
        \A i \in DOMAIN log :
            LET e == log[i].event
                start == EffectiveStart(rev, e.dtstart, e.rid)
                wall == start.day * SecondsPerDay + start.secs
            IN  /\ Searched(i)
                /\ RefValid(e)
                /\ start.type = "datetime"
                /\ ~start.aware
                => /\ Norm(i) = [status |-> "ok", time |-> StrfTime(wall), title |-> e.summary,
                                 sort_key |-> wall, is_all_day |-> FALSE]
                   /\ DayOf(wall) \in Days =>
                         Holding(Returned(DayOf(wall)), StrfTime(wall), e.summary) # {}

\* C18 (as claimed): an instance with a summary, a date-only DTSTART D and no
\* RECURRENCE-ID is normalized to the entry ("All Day", summary, midnight of
\* D in the user's zone), and is returned when D is today or tomorrow, in
\* both revisions.
C18_DateOnlyIsAllDay ==
    pc = "done" =>
        \A i \in DOMAIN log :
            LET e == log[i].event
                midnight == e.dtstart.day * SecondsPerDay
            IN  /\ Searched(i)
                /\ e.data = "vevent" /\ e.summary # ""
                /\ e.dtstart.type = "date"
                /\ e.rid.type = "none"
                => /\ Norm(i) = [status |-> "ok", time |-> "All Day", title |-> e.summary,
                                 sort_key |-> midnight, is_all_day |-> TRUE]
                   /\ DayOf(midnight) \in Days =>
                         \E k \in DOMAIN Returned(DayOf(midnight)) :
                             Returned(DayOf(midnight))[k] =
                                 [time |-> "All Day", title |-> e.summary,
                                  sort_key |-> midnight]

\* the steps of a request: the record of the request changes
RequestStep == req' # req

C22_ReaderGetsCopy ==
    HasRead /\ req.user_data.present =>
        req.obj # <<"dict", req.user_hash, req.user_data.last_updated>>

\* the terms of the whole calls.  A calendar the revision that runs does not
\* pass: its name raises (server, name None) or its search raises
Bad(calendar) ==
    \/ rev = "server" /\ calendar.name = NameNone
    \/ ~FilteredOut(rev, calendar.name, config.caldav_filters) /\ calendar.fail # "none"

\* the first calendar of source j that is not passed, 0 when there is none
FirstBad(j) ==
    LET bad == {k \in DOMAIN answers[j].calendars : Bad(answers[j].calendars[k])}
    IN  IF bad = {} THEN 0 ELSE CHOOSE k \in bad : \A m \in bad : k <= m

SourceFailed(j) == answers[j].fail # "none" \/ FirstBad(j) # 0

\* the instance is returned by a search of the call
Reached(i) ==
    /\ answers[log[i].src].fail = "none"
    /\ FirstBad(log[i].src) = 0 \/ log[i].cal < FirstBad(log[i].src)
    /\ ~FilteredOut(rev, log[i].name, config.caldav_filters)

\* the ERR entries of the today list that name the host of source j
ErrOf(j) ==
    {k \in DOMAIN today_events :
        /\ today_events[k].time = "ERR"
        /\ today_events[k].title \in {ErrMsg(kind, caldav_urls[j]) : kind \in FailureKinds}}

\* every entry of the lists that is not an ERR entry is made of an instance
\* a search returned
EntriesAreOfReached ==
    \A day \in Days : \A k \in DOMAIN Returned(day) :
        Returned(day)[k].time # "ERR" =>
            \E i \in DOMAIN log :
                Reached(i) /\ Norm(i).status = "ok" /\ Returned(day)[k] = Details(Norm(i))

EmptySource(j) == answers[j].fail = "none" /\ answers[j].calendars = <<>>
EmptyCalendar(j, k) ==
    /\ answers[j].fail = "none"
    /\ k \in DOMAIN answers[j].calendars
    /\ FirstBad(j) = 0 \/ k < FirstBad(j)
    /\ ~FilteredOut(rev, answers[j].calendars[k].name, config.caldav_filters)
    /\ answers[j].calendars[k].results = <<>>

\* C23: a source that lists no calendar and a calendar whose search returns
\* no instance add no ERR entry and no event entry, and the calendars and
\* sources after them are processed: their instances that are normalized
\* into a day are returned.
C23_EmptyAnswersAreSilent ==
    pc = "done" =>
        /\ \A j \in DOMAIN answers :
              /\ EmptySource(j) => ErrOf(j) = {}
              /\ (\E k \in DOMAIN answers[j].calendars : EmptyCalendar(j, k))
                 /\ FirstBad(j) = 0 => ErrOf(j) = {}
        /\ EntriesAreOfReached
        /\ \A i \in DOMAIN log :
              /\ Reached(i) /\ Kept(i)
              /\ \/ \E j \in DOMAIN answers : j < log[i].src /\ EmptySource(j)
                 \/ \E j \in DOMAIN answers, k \in 1..MaxListed :
                       /\ EmptyCalendar(j, k)
                       /\ j < log[i].src \/ (j = log[i].src /\ k < log[i].cal)
              => InOutput(i)

C23_Witness ==
    /\ pc = "done"
    /\ Len(answers) = 2
    /\ EmptySource(1)
    /\ EmptyCalendar(2, 1)
    /\ ErrCount(today_events) = 0
    /\ \E i \in DOMAIN log : log[i].src = 2 /\ log[i].cal = 2 /\ Kept(i) /\ InOutput(i)

\* C24: in one cycle, for every user refreshed so far, fetch_weather_data
\* has been called once and every configured source has been connected to
\* once, in the configured order, whether it failed or not.
C24_OneAttemptPerCycle ==
    \A u \in DOMAIN fetched :
        /\ fetched[u].weather_calls = 1
        /\ fetched[u].contacted = UserConfig(rev, u).caldav_urls

C24_Witness ==
    /\ rpc = "returned"
    /\ cycle = 2
    /\ fetched["u1"].weather = "None"
    /\ fetched["u1"].contacted = UserConfig(rev, "u1").caldav_urls
    /\ \E k \in DOMAIN fetched["u1"].today_events :
          fetched["u1"].today_events[k] =
              [time |-> "ERR", title |-> ErrMsg("Timeout", HostNames[1]),
               sort_key |-> StartOfToday(NowLocal)]

\* C25: after a cycle publishes, the keys of APP_DATA are the configured
\* users and every snapshot holds what the cycle fetched for the user, the
\* ERR entries included, and nothing of an earlier cycle.
C25_PublishedMapIsOfThisCycle ==
    rpc = "returned" =>
        /\ DOMAIN APP_DATA = AllUsers
        /\ \A u \in AllUsers :
              /\ u \in DOMAIN fetched
              /\ APP_DATA[u] = [weather |-> fetched[u].weather,
                                today_events |-> fetched[u].today_events,
                                tomorrow_events |-> fetched[u].tomorrow_events,
                                last_updated |-> cycle]

\* the second cycle has published a snapshot without an ERR entry
C25_Witness ==
    /\ rpc = "returned"
    /\ cycle = 2
    /\ DOMAIN APP_DATA = AllUsers
    /\ APP_DATA["u1"].last_updated = 2
    /\ Len(APP_DATA["u1"].today_events) > 0
    /\ ErrCount(APP_DATA["u1"].today_events) = 0

\* ------------------------------------------------------ the embedded client
\* src/main.py on the device.  machine.deepsleep does not return: the device
\* resets at the end of the interval and boot.py and main.py start again.
\* client.history is history: the way each wake-up ended.

\* what urequests.get(...).content can be for a 200 answer, and None for a
\* status other than 200 or an exception of the request
ImageResults == {"greyscale", "palette", "corrupt", "empty", "None"}

\* bool(image_data) and bool(png_data): None and b"" are false
Truthy(image_data) == image_data \notin {"None", "empty"}

\* machine.deepsleep(config.UPDATE_INTERVAL_SECONDS * 1000)
Deepsleep(c, outcome) ==
    [c EXCEPT !.pc = "asleep", !.image_data = "None",
              !.history = Append(@, outcome)]

\* if not connect_wifi(): machine.deepsleep(...)
ConnectWifi ==
    /\ client.pc = "cycle"
    /\ \E status \in {"connected", "failed"} :
          client' = IF status = "connected"
                    THEN [client EXCEPT !.pc = "fetch", !.wifi = status,
                                        !.connected = TRUE]
                    ELSE Deepsleep([client EXCEPT !.wifi = status], "wifi_failed")
    /\ UNCHANGED <<rev, answers>>
    /\ UNCHANGED fvars
    /\ UNCHANGED rvars

\* image_data = fetch_image_data(config.IMAGE_URL); if image_data: ... else
FetchImageData ==
    /\ client.pc = "fetch"
    /\ \E content \in ImageResults :
          client' = [client EXCEPT !.image_data = content,
                                   !.fetches = @ + 1,
                                   !.pc = IF Truthy(content) THEN "display" ELSE "sleep"]
    /\ UNCHANGED <<rev, answers>>
    /\ UNCHANGED fvars
    /\ UNCHANGED rvars

\* display_png(image_data) returns: True when the frame was drawn, False for
\* a format other than upng.GREYSCALE
DisplayPngReturns ==
    /\ client.pc = "display"
    /\ client.image_data \in {"greyscale", "palette"}
    /\ client' = [client EXCEPT !.pc = "sleep"]
    /\ UNCHANGED <<rev, answers>>
    /\ UNCHANGED fvars
    /\ UNCHANGED rvars

\* display_png(image_data) raises: the decoding of a corrupt image, or the
\* drawing of a decoded one, raises inside the try; the except clause calls
\* traceback.print_exc() and traceback is not imported, so NameError leaves
\* display_png and the loop, which has no handler
DisplayPngRaises ==
    /\ client.pc = "display"
    /\ client.image_data \in {"greyscale", "corrupt"}
    /\ client' = [client EXCEPT !.pc = "crashed",
                                !.history = Append(@, "NameError")]
    /\ UNCHANGED <<rev, answers>>
    /\ UNCHANGED fvars
    /\ UNCHANGED rvars

\* the end of the loop body: machine.deepsleep(sleep_ms)
DeepSleep ==
    /\ client.pc = "sleep"
    /\ client' = Deepsleep(client, IF ~Truthy(client.image_data) THEN "fetch_failed"
                                   ELSE IF client.image_data = "greyscale" THEN "shown"
                                   ELSE "not_shown")
    /\ UNCHANGED <<rev, answers>>
    /\ UNCHANGED fvars
    /\ UNCHANGED rvars

\* the interval is over: the device resets and main.py reaches its loop again
ClientWake ==
    /\ client.pc = "asleep"
    /\ client.wake < MaxWakes
    /\ client' = [ClientBoot EXCEPT !.wake = client.wake + 1,
                                    !.history = client.history]
    /\ UNCHANGED <<rev, answers>>
    /\ UNCHANGED fvars
    /\ UNCHANGED rvars

NextClient ==
    \/ ConnectWifi
    \/ FetchImageData
    \/ DisplayPngReturns
    \/ DisplayPngRaises
    \/ DeepSleep
    \/ ClientWake

SpecClient == Init /\ [][NextClient]_vars

\* C26 (as claimed): every update cycle of the client ends in the deep-sleep
\* call: the loop is never left by an exception, whatever connect_wifi,
\* fetch_image_data and display_png do, and a cycle whose Wi-Fi connection
\* failed fetches no image.
C26_EveryCycleDeepSleeps ==
    /\ client.pc # "crashed"
    /\ client.wifi = "failed" => client.fetches = 0 /\ client.pc = "asleep"

\* the instances of the log that are valid events of a day, of either kind
ValidOf(day) == TimedOf(day) \cup AllDayOf(day)

\* C27 (as claimed): the seen-sets are per bucket, in both revisions: a
\* (time, title) pair that one valid instance has today and another has
\* tomorrow is once in each returned list, and an all-day and a timed
\* instance of one day with the same title are both in the list of the day.
C27_DedupIsPerBucket ==
    pc = "done" =>
        /\ \A i \in ValidOf("today") : \A j \in ValidOf("tomorrow") :
              /\ RefTime(log[i].event) = RefTime(log[j].event)
              /\ log[i].event.summary = log[j].event.summary
              => \A day \in Days :
                    Cardinality(Holding(Returned(day), RefTime(log[i].event),
                                        log[i].event.summary)) = 1
        /\ \A day \in Days : \A i \in AllDayOf(day) : \A j \in TimedOf(day) :
              log[i].event.summary = log[j].event.summary
              => /\ Cardinality(Holding(Returned(day), "All Day",
                                        log[i].event.summary)) = 1
                 /\ Cardinality(Holding(Returned(day), RefTime(log[j].event),
                                        log[j].event.summary)) = 1

\* C28: APP_DATA changes only in the publish step of a cycle that did not
\* raise, so a cycle that has raised leaves the map of an earlier publish, or
\* the empty map, whole, whatever it had stored in new_data; and a request of
\* a configured user that reads the map no cycle has published is answered
\* 503.
C28_RaisedCycleLeavesMap ==
    /\ [][APP_DATA' # APP_DATA => rpc = "users" /\ rpc' = "returned"]_vars
    /\ [](rpc = "raised" =>
            \/ APP_DATA = EmptyMap
            \/ \E c \in 1..(cycle - 1) : StoreOf(APP_DATA) = PublishedBy(c))
    /\ [](req.pc = "answered" /\ req.user_hash \in AllUsers /\ req.store = {}
            => req.status = 503)

\* the second cycle raised after it had stored the first user, and a request
\* of that user reads the snapshot of the first cycle
C28_Witness ==
    /\ rpc = "raised"
    /\ cycle = 2
    /\ "u1" \in DOMAIN new_data
    /\ StoreOf(APP_DATA) = PublishedBy(1)
    /\ req.pc = "read"
    /\ req.user_hash = "u1"
    /\ req.user_data = [present |-> TRUE, last_updated |-> 1]

\* source j fails part-way: it lists its calendars, at least one of them is
\* searched without an exception, and a later one is not passed
PartWay(j) ==
    /\ answers[j].fail = "none"
    /\ \E k \in 1..(FirstBad(j) - 1) :
          ~FilteredOut(rev, answers[j].calendars[k].name, config.caldav_filters)

\* an instance of a calendar of source j that comes after the one that failed
Unsearched(i, j) == log[i].src = j /\ log[i].cal > FirstBad(j)

\* C29: a source that fails part-way has exactly one ERR entry in the today
\* list, the instances of its earlier calendars that are normalized into a
\* day are returned, and its later calendars are not searched: an instance
\* only they hold is in no list, and every event entry of the lists is made
\* of an instance of a calendar that was reached.
C29_PartialSourceKeepsCollected ==
    pc = "done" =>
        \A j \in DOMAIN answers :
            PartWay(j) =>
                /\ Cardinality(ErrOf(j)) = 1
                /\ \A i \in DOMAIN log :
                      log[i].src = j /\ Reached(i) /\ Kept(i) => InOutput(i)
                /\ \A i \in DOMAIN log :
                      /\ Unsearched(i, j)
                      /\ Norm(i).status = "ok"
                      /\ \A m \in DOMAIN log :
                            Reached(m) /\ Norm(m).status = "ok"
                            => \/ Norm(m).time # Norm(i).time
                               \/ Norm(m).title # Norm(i).title
                      => ~InOutput(i)
                /\ EntriesAreOfReached

\* the first source searches a calendar, keeps its instance, fails at the
\* second calendar and leaves out the instance that only its third holds
C29_Witness ==
    /\ pc = "done"
    /\ PartWay(1)
    /\ FirstBad(1) = 2
    /\ Cardinality(ErrOf(1)) = 1
    /\ \E i \in DOMAIN log : log[i].src = 1 /\ log[i].cal = 1 /\ Kept(i) /\ InOutput(i)
    /\ \E i \in DOMAIN log :
          /\ Unsearched(i, 1)
          /\ Norm(i).status = "ok"
          /\ ~InOutput(i)

\* the instances a search returned that share the day and the dedup key of
\* instance i, as the revision normalizes them
SameKey(i) ==
    {m \in DOMAIN log : /\ Reached(m) /\ Kept(m)
                        /\ DayOf(Norm(m).sort_key) = DayOf(Norm(i).sort_key)
                        /\ Norm(m).time = Norm(i).time
                        /\ Norm(m).title = Norm(i).title}

\* C30: (a) the ERR entries of the today list are in the configured order of
\* the sources that failed; (b) of the instances the searches returned that
\* share a day and a dedup key, the list of the day holds one entry, made of
\* the one of the earliest source and, within it, of the earliest calendar.
C30_ConfiguredOrderDecides ==
    pc = "done" =>
        /\ \A k, l \in DOMAIN today_events :
              k < l /\ today_events[k].time = "ERR" /\ today_events[l].time = "ERR"
              => \E j1, j2 \in DOMAIN answers :
                    j1 < j2 /\ k \in ErrOf(j1) /\ l \in ErrOf(j2)
        /\ \A i \in DOMAIN log :
              Reached(i) /\ Kept(i) =>
                  LET first == CHOOSE m \in SameKey(i) : \A o \in SameKey(i) : m <= o
                      list == Returned(DayOf(Norm(i).sort_key))
                      held == Holding(list, Norm(i).time, Norm(i).title)
                  IN  /\ Cardinality(held) = 1
                      /\ \A k \in held : list[k] = Details(Norm(first))

\* both sources fail, the first after two calendars whose instances share a
\* key: the entry is that of the first calendar, the ERR entries are in the
\* order of the sources
C30_Witness ==
    /\ pc = "done"
    /\ Len(answers) = 2
    /\ ErrOf(1) = {1}
    /\ ErrOf(2) = {2}
    /\ \E i, m \in DOMAIN log :
          /\ log[i].src = 1 /\ log[i].cal = 1
          /\ log[m].src = 1 /\ log[m].cal = 2
          /\ m \in SameKey(i)
          /\ Norm(m).sort_key # Norm(i).sort_key
          /\ \E k \in DOMAIN today_events : today_events[k] = Details(Norm(i))

====
